---- MODULE Spec2Model ----
(***************************************************************************)
(* A model of clip-prompt (src-tauri/src/lib.rs): the hotkey pipeline      *)
(* (run / handle_global_hotkey / enhance_prompt), the shared AppState      *)
(* (model_name and system_prompt behind their mutexes), the commands of    *)
(* the inference client and the autostart driver.  Texts are sequences of  *)
(* characters; messages built by format! are sequences of their parts.     *)
(***************************************************************************)
EXTENDS Integers, Sequences, FiniteSets, TLC

\* ------------------------------------------------------------------ bounds
\* How many hotkey triggers a behaviour holds.
MaxRuns == 2

\* ------------------------------------------------------------------- texts
Whitespace == {" "}
\* The texts the clipboard and the server hand over: empty, whitespace only,
\* plain, and with whitespace at either end.
Texts == {<<>>, <<" ">>, <<"a">>, <<" ", "a">>, <<"a", " ">>}

\* str::trim_start / str::trim_end / str::trim
RECURSIVE TrimStart(_)
TrimStart(s) ==
    IF s # <<>> /\ Head(s) \in Whitespace THEN TrimStart(Tail(s)) ELSE s

RECURSIVE TrimEnd(_)
TrimEnd(s) ==
    IF s # <<>> /\ s[Len(s)] \in Whitespace
    THEN TrimEnd(SubSeq(s, 1, Len(s) - 1)) ELSE s

Trim(s) == TrimEnd(TrimStart(s))

\* String::is_empty
IsEmpty(s) == Len(s) = 0

\* format!("<prefix>{}", e): the message e behind a fixed prefix
Fmt(prefix, e) == <<prefix>> \o e

Runs == 1..MaxRuns
NoText == <<"(none)">>
NoModel == ""

\* The model names the control surface or the server can hand over.
ModelNames == {"llama3"}
ModelArgs == ModelNames \cup {NoModel}

DEFAULT_SYSTEM_PROMPT == <<"<system_prompt>", "...", "</system_prompt>">>

\* ------------------------------------------------------- notification bodies
\* The bodies the notices carry, without the emoji each begins with.
NoticeProcessing == <<"Enhancing your text...">>
NoticeCopyFirst == <<"Please copy some text first (Cmd+C), then try again">>
NoticeNoModel == <<"No AI model available. Please check your Ollama installation.">>
NoticeSuccess == <<"Text enhanced! Press Cmd+V to paste">>
\* A failure notice that drops the error it was given.
NoticeFailedGeneric(e) == <<"Enhancement failed: ">>
NoticeFailed(e) == Fmt("Enhancement failed: ", e)

VARIABLES
    \* the system clipboard; who wrote it last (0, the user, or a run), and for a
    \* run's write the enhanced text it handed over and the reply behind it
    clipboard, cbWriter, cbText, cbReply,
    \* AppState
    model_name, system_prompt,
    \* the model_name mutex: "free" or its holder; the last completed write;
    \* the system_prompt mutex: "free" or its holder; the mutexes of AppState
    \* a panic has poisoned
    modelLock, modelDone, promptLock, poisoned,
    \* one spawned task per trigger
    pc, clipboard_text, current_model, request, enhanced_text, failure,
    \* what each task did, as seen from outside
    readBlank, sawNoModel, reply, notices, nreq, nwrite, writeOk, outcome,
    \* the control surface: the last command, what it answered, the override
    \* that was last set or reset, what the server was asked and replied, and
    \* the commands whose GET of /api/tags is in flight
    lastCmd, got, override, served, pending,
    \* the autostart driver: the host, the package name, the artifacts on
    \* disk and in the registry, the loaded launch agents, the calls in
    \* flight, and what the calls and queries answered
    platform, app_name, fs, loaded, call, res, lastOp, answer

cbVars == <<clipboard, cbWriter, cbText, cbReply>>
cfgVars == <<model_name, system_prompt, modelLock, modelDone, promptLock, poisoned>>
taskVars == <<pc, clipboard_text, current_model, request, enhanced_text, failure>>
logVars == <<readBlank, sawNoModel, reply, notices, nreq, nwrite, writeOk, outcome>>
pipeVars == <<cbVars, taskVars, logVars>>
tplVars == <<lastCmd, got, override, served, pending>>
autoVars == <<platform, app_name, fs, loaded, call, res, lastOp, answer>>
others == <<tplVars, autoVars>>
vars == <<cbVars, cfgVars, taskVars, logVars, tplVars, autoVars>>

\* ------------------------------------------------------------ small helpers
Ok(v) == [ok |-> TRUE, val |-> v]
Err(e) == [ok |-> FALSE, err |-> e]
None == [some |-> FALSE]
Some(v) == [some |-> TRUE, val |-> v]
NoRequest == [sent |-> FALSE]
NoFailure == <<>>
NoReply == [got |-> FALSE, wf |-> FALSE, response |-> NoText, error |-> ""]

\* ------------------------------------------------- the hotkey and the server
Shortcuts ==
    {"CommandOrControl+Shift+E", "shift+super+KeyE", "ctrl+shift+KeyE",
     "super+shift+KeyE", "ctrl+shift+KeyX"}
ShortcutStates == {"Pressed", "Released"}

\* A handler that takes every shortcut for its own.
AnyHotkey(shortcut_str) == TRUE
is_target_hotkey(shortcut_str) ==
    \/ shortcut_str = "CommandOrControl+Shift+E"
    \/ shortcut_str = "shift+super+KeyE"
    \/ shortcut_str = "ctrl+shift+KeyE"
    \/ shortcut_str = "super+shift+KeyE"

\* The fields the OllamaResponse struct cannot be decoded without.
RequiredFields == {"model", "created_at", "response", "done"}

\* A reply body: text that is JSON or not, and when it is, the fields it holds.
NotJson == [json |-> FALSE, fields |-> {}, response |-> <<>>]
Bodies ==
    {NotJson, [json |-> TRUE, fields |-> {"response", "done"}, response |-> <<"a">>]}
    \cup [json : {TRUE}, fields : {RequiredFields}, response : Texts]

\* What one request to the server can come back with: no connection, a
\* status other than 2xx, a 2xx whose body cannot be read to its end, or a
\* 2xx with a body.
Replies ==
    {[sent |-> FALSE, status |-> 0, readable |-> FALSE, body |-> NotJson],
     [sent |-> TRUE, status |-> 404, readable |-> TRUE, body |-> NotJson],
     [sent |-> TRUE, status |-> 200, readable |-> FALSE, body |-> NotJson]}
    \cup [sent : {TRUE}, status : {200}, readable : {TRUE}, body : Bodies]

\* How reqwest and serde_json print the errors they hand back.
SendError == "connection refused"
BodyError == "body error"
ParseError == "invalid envelope"

\* StatusCode::is_success
is_success(status) == status >= 200 /\ status < 300

\* serde_json::from_str::<OllamaResponse>
from_str(body) ==
    IF body.json /\ RequiredFields \subseteq body.fields
    THEN Ok(body.response)
    ELSE Err(<<ParseError>>)

\* enhance_prompt, the template: the custom prompt, or the default when empty
TemplateOf(custom_prompt) ==
    IF IsEmpty(custom_prompt) THEN DEFAULT_SYSTEM_PROMPT ELSE custom_prompt

\* enhance_prompt, full_prompt
FullPrompt(template, prompt) ==
    template \o <<"\n\nUser input: ">> \o prompt \o <<"\n\nEnhanced prompt:">>

\* enhance_prompt, model_to_use
ModelToUse(model, stored) ==
    IF model.some THEN model.val
    ELSE IF stored = NoModel THEN "mistral:7b" ELSE stored

\* enhance_prompt, the request it posts
BuildRequest(prompt, model, custom_prompt, stored) ==
    [sent |-> TRUE, model |-> ModelToUse(model, stored),
     prompt |-> FullPrompt(TemplateOf(custom_prompt), prompt), stream |-> FALSE]

\* enhance_prompt from the answer of send() on: its Result
EnhanceResult(rep) ==
    IF ~rep.sent THEN Err(Fmt("Failed to send request: ", <<SendError>>))
    ELSE IF ~is_success(rep.status)
    THEN Err(Fmt("Ollama API error: ", <<ToString(rep.status)>>))
    ELSE IF ~rep.readable
    THEN Err(Fmt("Failed to read response: ", <<BodyError>>))
    ELSE IF ~from_str(rep.body).ok
    THEN Err(Fmt("Failed to parse response: ", from_str(rep.body).err))
    ELSE Ok(from_str(rep.body).val)

\* A blank test that forgets to trim.
IsBlankNoTrim(text) == IsEmpty(text)
\* handle_global_hotkey, the test that skips an empty clipboard
IsBlankClipboard(text) == IsEmpty(Trim(text))

\* A model test that lets the empty model through.
NeverMissing(current) == FALSE
\* handle_global_hotkey, the test that stops a run without a model
NoModelConfigured(current) == current = NoModel

\* A write that tidies the text up first.
TextToWriteTrimmed(enhanced) == Trim(enhanced)
\* handle_global_hotkey, what write_text is given
TextToWrite(enhanced) == enhanced

\* A mutex that does not keep anybody out.
CanLockAlways(lock) == TRUE
\* A mutex can be taken when nobody holds it.
CanLock(lock) == lock = "free"

\* ---------------------------------------------------------------- Init
TaskInit ==
    /\ pc = [r \in Runs |-> "idle"]
    /\ clipboard_text = [r \in Runs |-> NoText]
    /\ current_model = [r \in Runs |-> NoModel]
    /\ request = [r \in Runs |-> NoRequest]
    /\ enhanced_text = [r \in Runs |-> NoText]
    /\ failure = [r \in Runs |-> NoFailure]
    /\ readBlank = [r \in Runs |-> FALSE]
    /\ sawNoModel = [r \in Runs |-> FALSE]
    /\ reply = [r \in Runs |-> NoReply]
    /\ notices = [r \in Runs |-> <<>>]
    /\ nreq = [r \in Runs |-> 0]
    /\ nwrite = [r \in Runs |-> 0]
    /\ writeOk = [r \in Runs |-> FALSE]
    /\ outcome = [r \in Runs |-> "none"]

\* AppState as run() manages it
StateInit ==
    /\ model_name = NoModel
    /\ system_prompt = <<>>
    /\ modelLock = "free"
    /\ modelDone = NoModel
    /\ promptLock = "free"
    /\ poisoned = {}

\* ------------------------------------------------------- the hotkey pipeline
Push(r, body) == [notices EXCEPT ![r] = Append(@, body)]

\* The task a trigger spawns takes the lowest slot no trigger has used.
NextSlot(r) == pc[r] = "idle" /\ \A q \in Runs : q < r => pc[q] # "idle"

\* run, the shortcut handler: a pressed target hotkey shows the "processing"
\* notice and spawns handle_global_hotkey; any other event changes nothing.
HotkeyEvent(shortcut_str, state) ==
    IF is_target_hotkey(shortcut_str) /\ state = "Pressed"
    THEN \E r \in Runs :
            /\ NextSlot(r)
            /\ pc' = [pc EXCEPT ![r] = "read"]
            /\ notices' = Push(r, NoticeProcessing)
            /\ UNCHANGED <<others, cbVars, cfgVars, clipboard_text, current_model,
                           request, enhanced_text, failure, readBlank, sawNoModel, reply,
                           nreq, nwrite, writeOk, outcome>>
    ELSE UNCHANGED vars

\* A read that hands a blank text back as an error.
ReadBlankFails(r) ==
    /\ pc[r] = "read"
    /\ readBlank' = [readBlank EXCEPT ![r] =
            \A i \in DOMAIN clipboard : clipboard[i] \in Whitespace]
    /\ notices' = IF IsBlankClipboard(clipboard)
                  THEN Push(r, NoticeCopyFirst) ELSE notices
    /\ IF IsBlankClipboard(clipboard)
       THEN /\ failure' = [failure EXCEPT ![r] = <<"Nothing to enhance">>]
            /\ outcome' = [outcome EXCEPT ![r] = "blank"]
            /\ pc' = [pc EXCEPT ![r] = "failed"]
            /\ UNCHANGED clipboard_text
       ELSE /\ clipboard_text' = [clipboard_text EXCEPT ![r] = clipboard]
            /\ pc' = [pc EXCEPT ![r] = "model"]
            /\ UNCHANGED <<failure, outcome>>
    /\ UNCHANGED <<others, cbVars, cfgVars, current_model, request, enhanced_text,
                   sawNoModel, reply, nreq, nwrite, writeOk>>

\* handle_global_hotkey: read_text() answers Ok(text); a blank text ends the
\* run with the "copy first" notice and Ok(()).
ReadClipboardOk(r) ==
    /\ pc[r] = "read"
    /\ readBlank' = [readBlank EXCEPT ![r] =
            \A i \in DOMAIN clipboard : clipboard[i] \in Whitespace]
    /\ IF IsBlankClipboard(clipboard)
       THEN /\ notices' = Push(r, NoticeCopyFirst)
            /\ outcome' = [outcome EXCEPT ![r] = "blank"]
            /\ pc' = [pc EXCEPT ![r] = "done"]
            /\ UNCHANGED clipboard_text
       ELSE /\ clipboard_text' = [clipboard_text EXCEPT ![r] = clipboard]
            /\ pc' = [pc EXCEPT ![r] = "model"]
            /\ UNCHANGED <<notices, outcome>>
    /\ UNCHANGED <<others, cbVars, cfgVars, current_model, request, enhanced_text,
                   failure, sawNoModel, reply, nreq, nwrite, writeOk>>

\* A failed read that tells the user nothing about copying.
ReadErrSilent(r) ==
    /\ pc[r] = "read"
    /\ failure' = [failure EXCEPT ![r] = Fmt("Failed to read clipboard: ", <<"no text">>)]
    /\ outcome' = [outcome EXCEPT ![r] = "read_error"]
    /\ pc' = [pc EXCEPT ![r] = "failed"]
    /\ UNCHANGED <<others, cbVars, cfgVars, clipboard_text, current_model, request,
                   enhanced_text, readBlank, sawNoModel, reply, notices, nreq, nwrite,
                   writeOk>>

\* handle_global_hotkey: read_text() answers Err(e): the "copy first" notice,
\* and Err("Failed to read clipboard: e") goes back to the spawned task.
ReadClipboardErr(r) ==
    /\ pc[r] = "read"
    /\ notices' = Push(r, NoticeCopyFirst)
    /\ failure' = [failure EXCEPT ![r] = Fmt("Failed to read clipboard: ", <<"no text">>)]
    /\ outcome' = [outcome EXCEPT ![r] = "read_error"]
    /\ pc' = [pc EXCEPT ![r] = "failed"]
    /\ UNCHANGED <<others, cbVars, cfgVars, clipboard_text, current_model, request,
                   enhanced_text, readBlank, sawNoModel, reply, nreq, nwrite, writeOk>>

\* handle_global_hotkey: state.model_name.lock().unwrap().clone(); an empty
\* model ends the run with the "no model" notice and Ok(()).
CheckModel(r) ==
    /\ pc[r] = "model"
    /\ CanLock(modelLock) /\ "model_name" \notin poisoned
    /\ sawNoModel' = [sawNoModel EXCEPT ![r] = model_name = NoModel]
    /\ IF NoModelConfigured(model_name)
       THEN /\ notices' = Push(r, NoticeNoModel)
            /\ outcome' = [outcome EXCEPT ![r] = "no_model"]
            /\ pc' = [pc EXCEPT ![r] = "done"]
            /\ clipboard_text' = [clipboard_text EXCEPT ![r] = NoText]
            /\ UNCHANGED current_model
       ELSE /\ current_model' = [current_model EXCEPT ![r] = model_name]
            /\ pc' = [pc EXCEPT ![r] = "enhance"]
            /\ UNCHANGED <<notices, outcome, clipboard_text>>
    /\ UNCHANGED <<others, cbVars, cfgVars, request, enhanced_text, failure,
                   readBlank, reply, nreq, nwrite, writeOk>>

\* A pipeline that passes no model, so that enhance_prompt reads the store
\* again.
EnhanceSendRereads(r) ==
    /\ pc[r] = "enhance"
    /\ CanLock(promptLock) /\ "system_prompt" \notin poisoned
    /\ CanLock(modelLock) /\ "model_name" \notin poisoned
    /\ request' = [request EXCEPT ![r] =
            BuildRequest(clipboard_text[r], None, system_prompt, model_name)]
    /\ nreq' = [nreq EXCEPT ![r] = @ + 1]
    /\ clipboard_text' = [clipboard_text EXCEPT ![r] = NoText]
    /\ current_model' = [current_model EXCEPT ![r] = NoModel]
    /\ pc' = [pc EXCEPT ![r] = "await"]
    /\ UNCHANGED <<others, cbVars, cfgVars, enhanced_text, failure, readBlank,
                   sawNoModel, reply, notices, outcome, nwrite, writeOk>>

\* An enhance_prompt that keeps the guard of system_prompt while it waits
\* for the server.
EnhanceSendHolding(r) ==
    /\ pc[r] = "enhance"
    /\ CanLock(promptLock) /\ "system_prompt" \notin poisoned
    /\ promptLock' = "enhance_prompt"
    /\ request' = [request EXCEPT ![r] =
            BuildRequest(clipboard_text[r], Some(current_model[r]),
                         system_prompt, model_name)]
    /\ nreq' = [nreq EXCEPT ![r] = @ + 1]
    /\ clipboard_text' = [clipboard_text EXCEPT ![r] = NoText]
    /\ current_model' = [current_model EXCEPT ![r] = NoModel]
    /\ pc' = [pc EXCEPT ![r] = "await"]
    /\ UNCHANGED <<others, cbVars, model_name, system_prompt, modelLock, modelDone,
                   poisoned, enhanced_text, failure, readBlank, sawNoModel, reply,
                   notices, outcome, nwrite, writeOk>>

\* enhance_prompt(clipboard_text, Some(current_model), state) up to send():
\* the template is read under its lock, the request is built and posted.
EnhanceSend(r) ==
    /\ pc[r] = "enhance"
    /\ CanLock(promptLock) /\ "system_prompt" \notin poisoned
    /\ request' = [request EXCEPT ![r] =
            BuildRequest(clipboard_text[r], Some(current_model[r]),
                         system_prompt, model_name)]
    /\ nreq' = [nreq EXCEPT ![r] = @ + 1]
    /\ clipboard_text' = [clipboard_text EXCEPT ![r] = NoText]
    /\ current_model' = [current_model EXCEPT ![r] = NoModel]
    /\ pc' = [pc EXCEPT ![r] = "await"]
    /\ UNCHANGED <<others, cbVars, cfgVars, enhanced_text, failure, readBlank,
                   sawNoModel, reply, notices, outcome, nwrite, writeOk>>

\* A reply the claims call well-formed: a 2xx status and a readable body that
\* is JSON with every required field.
WellFormed(rep) ==
    /\ rep.sent /\ rep.status \in 200..299 /\ rep.readable
    /\ rep.body.json /\ RequiredFields \subseteq rep.body.fields

\* What the server answered, as the claims sort it: a well-formed reply and
\* its response text, or the error that made it unusable.
Underlying(rep) ==
    IF ~rep.sent THEN SendError
    ELSE IF rep.status \notin 200..299 THEN ToString(rep.status)
    ELSE IF ~rep.readable THEN BodyError
    ELSE ParseError
Answered(rep) ==
    IF WellFormed(rep)
    THEN [got |-> TRUE, wf |-> TRUE, response |-> rep.body.response, error |-> ""]
    ELSE [got |-> TRUE, wf |-> FALSE, response |-> NoText, error |-> Underlying(rep)]

\* An enhance call that is posted once more after a first failure.
ReceiveRetries(r) ==
    /\ pc[r] = "await"
    /\ \E rep \in Replies :
        /\ reply' = [reply EXCEPT ![r] = Answered(rep)]
        /\ IF EnhanceResult(rep).ok
           THEN /\ enhanced_text' = [enhanced_text EXCEPT ![r] = EnhanceResult(rep).val]
                /\ pc' = [pc EXCEPT ![r] = "write"]
                /\ UNCHANGED <<failure, outcome>>
           ELSE IF nreq[r] < 2
           THEN /\ pc' = [pc EXCEPT ![r] = "enhance"]
                /\ UNCHANGED <<failure, outcome, enhanced_text>>
           ELSE /\ failure' = [failure EXCEPT ![r] =
                        Fmt("Failed to enhance text: ", EnhanceResult(rep).err)]
                /\ outcome' = [outcome EXCEPT ![r] = "enhance_error"]
                /\ pc' = [pc EXCEPT ![r] = "failed"]
                /\ UNCHANGED enhanced_text
    /\ request' = [request EXCEPT ![r] = NoRequest]
    /\ UNCHANGED <<others, cbVars, cfgVars, clipboard_text, current_model,
                   readBlank, sawNoModel, notices, nreq, nwrite, writeOk>>

\* enhance_prompt after send().await, and the match on its result in
\* handle_global_hotkey.
Receive(r) ==
    /\ pc[r] = "await"
    /\ \E rep \in Replies :
        /\ reply' = [reply EXCEPT ![r] = Answered(rep)]
        /\ IF EnhanceResult(rep).ok
           THEN /\ enhanced_text' = [enhanced_text EXCEPT ![r] = EnhanceResult(rep).val]
                /\ pc' = [pc EXCEPT ![r] = "write"]
                /\ UNCHANGED <<failure, outcome>>
           ELSE /\ failure' = [failure EXCEPT ![r] =
                        Fmt("Failed to enhance text: ", EnhanceResult(rep).err)]
                /\ outcome' = [outcome EXCEPT ![r] = "enhance_error"]
                /\ pc' = [pc EXCEPT ![r] = "failed"]
                /\ UNCHANGED enhanced_text
    /\ request' = [request EXCEPT ![r] = NoRequest]
    /\ UNCHANGED <<others, cbVars, cfgVars, clipboard_text, current_model,
                   readBlank, sawNoModel, notices, nreq, nwrite, writeOk>>

\* A clipboard that keeps the first text a run wrote.
WriteKeepsFirst(r) ==
    /\ pc[r] = "write"
    /\ clipboard' = IF cbWriter \in Runs THEN clipboard ELSE TextToWrite(enhanced_text[r])
    /\ cbWriter' = r
    /\ cbText' = enhanced_text[r]
    /\ cbReply' = reply[r].response
    /\ reply' = [reply EXCEPT ![r].response = NoText]
    /\ nwrite' = [nwrite EXCEPT ![r] = @ + 1]
    /\ writeOk' = [writeOk EXCEPT ![r] = TRUE]
    /\ notices' = Push(r, NoticeSuccess)
    /\ outcome' = [outcome EXCEPT ![r] = "success"]
    /\ enhanced_text' = [enhanced_text EXCEPT ![r] = NoText]
    /\ pc' = [pc EXCEPT ![r] = "done"]
    /\ UNCHANGED <<others, cfgVars, clipboard_text, current_model, request, failure,
                   readBlank, sawNoModel, nreq>>

\* handle_global_hotkey: write_text(enhanced_text) answers Ok: the success
\* notice and Ok(()).
WriteClipboardOk(r) ==
    /\ pc[r] = "write"
    /\ clipboard' = TextToWrite(enhanced_text[r])
    /\ cbWriter' = r
    /\ cbText' = enhanced_text[r]
    /\ cbReply' = reply[r].response
    /\ reply' = [reply EXCEPT ![r].response = NoText]
    /\ nwrite' = [nwrite EXCEPT ![r] = @ + 1]
    /\ writeOk' = [writeOk EXCEPT ![r] = TRUE]
    /\ notices' = Push(r, NoticeSuccess)
    /\ outcome' = [outcome EXCEPT ![r] = "success"]
    /\ enhanced_text' = [enhanced_text EXCEPT ![r] = NoText]
    /\ pc' = [pc EXCEPT ![r] = "done"]
    /\ UNCHANGED <<others, cfgVars, clipboard_text, current_model, request, failure,
                   readBlank, sawNoModel, nreq>>

\* A failed write that is tried once more before the run gives up.
WriteErrRetried(r) ==
    /\ pc[r] = "write"
    /\ nwrite' = [nwrite EXCEPT ![r] = @ + 1]
    /\ IF nwrite[r] = 0
       THEN UNCHANGED <<failure, outcome, enhanced_text, reply, pc>>
       ELSE /\ failure' = [failure EXCEPT ![r] =
                    Fmt("Failed to write to clipboard: ", <<"denied">>)]
            /\ outcome' = [outcome EXCEPT ![r] = "write_error"]
            /\ enhanced_text' = [enhanced_text EXCEPT ![r] = NoText]
            /\ reply' = [reply EXCEPT ![r].response = NoText]
            /\ pc' = [pc EXCEPT ![r] = "failed"]
    /\ UNCHANGED <<others, cbVars, cfgVars, clipboard_text, current_model, request,
                   readBlank, sawNoModel, notices, nreq, writeOk>>

\* handle_global_hotkey: write_text(enhanced_text) answers Err(e).
WriteClipboardErr(r) ==
    /\ pc[r] = "write"
    /\ nwrite' = [nwrite EXCEPT ![r] = @ + 1]
    /\ failure' = [failure EXCEPT ![r] = Fmt("Failed to write to clipboard: ", <<"denied">>)]
    /\ outcome' = [outcome EXCEPT ![r] = "write_error"]
    /\ enhanced_text' = [enhanced_text EXCEPT ![r] = NoText]
    /\ reply' = [reply EXCEPT ![r].response = NoText]
    /\ pc' = [pc EXCEPT ![r] = "failed"]
    /\ UNCHANGED <<others, cbVars, cfgVars, clipboard_text, current_model, request,
                   readBlank, sawNoModel, notices, nreq, writeOk>>

\* A spawned task that shows the notice and never ends.
StayFailed(r) ==
    /\ pc[r] = "failed"
    /\ failure[r] # NoFailure
    /\ notices' = Push(r, NoticeFailed(failure[r]))
    /\ failure' = [failure EXCEPT ![r] = NoFailure]
    /\ UNCHANGED <<others, cbVars, cfgVars, pc, clipboard_text, current_model, request,
                   enhanced_text, readBlank, sawNoModel, reply, nreq, nwrite, writeOk,
                   outcome>>

\* run, the spawned task: the Err of handle_global_hotkey is shown as the
\* "Enhancement failed" notice, and the task ends.
ReportFailure(r) ==
    /\ pc[r] = "failed"
    /\ notices' = Push(r, NoticeFailed(failure[r]))
    /\ failure' = [failure EXCEPT ![r] = NoFailure]
    /\ pc' = [pc EXCEPT ![r] = "done"]
    /\ UNCHANGED <<others, cbVars, cfgVars, clipboard_text, current_model, request,
                   enhanced_text, readBlank, sawNoModel, reply, nreq, nwrite, writeOk,
                   outcome>>

\* The user copies a text: the clipboard outside the program.
UserCopy(t) ==
    /\ clipboard' = t
    /\ cbWriter' = 0
    /\ UNCHANGED <<cbText, cbReply>>
    /\ UNCHANGED <<others, cfgVars, taskVars, logVars>>

\* update_model: the guard is taken and *model_name = model.clone()
UpdateModelLock(model) ==
    /\ CanLock(modelLock) /\ "model_name" \notin poisoned
    /\ modelLock' = "update_model"
    /\ model_name' = model
    /\ UNCHANGED <<others, system_prompt, modelDone, promptLock, poisoned, cbVars,
                   taskVars, logVars>>

\* update_model: the guard is dropped and Ok(()) returned
UpdateModelUnlock ==
    /\ modelLock = "update_model"
    /\ modelLock' = "free"
    /\ modelDone' = model_name
    /\ UNCHANGED <<others, model_name, system_prompt, promptLock, poisoned, cbVars,
                   taskVars, logVars>>

RunStep(r) ==
    \/ ReadClipboardOk(r)
    \/ ReadClipboardErr(r)
    \/ CheckModel(r)
    \/ EnhanceSend(r)
    \/ Receive(r)
    \/ WriteClipboardOk(r)
    \/ WriteClipboardErr(r)
    \/ ReportFailure(r)

\* ------------------------------------------- the instruction template
\* An answer that hands the stored prompt back as it is.
TemplateAnswerStored(prompt) == Ok(prompt)
\* get_system_prompt, its answer for the stored prompt
TemplateAnswer(prompt) ==
    IF IsEmpty(prompt) THEN Ok(DEFAULT_SYSTEM_PROMPT) ELSE Ok(prompt)

\* reset_system_prompt, the value it stores
ResetValue == <<>>

NoOverride == [set |-> FALSE, val |-> <<>>]

\* update_system_prompt
UpdateSystemPrompt(prompt) ==
    /\ CanLock(promptLock) /\ "system_prompt" \notin poisoned
    /\ system_prompt' = prompt
    /\ override' = [set |-> TRUE, val |-> prompt]
    /\ lastCmd' = "update_system_prompt"
    /\ UNCHANGED <<got, served, pending, model_name, modelLock, modelDone,
                   promptLock, poisoned, pipeVars, autoVars>>

\* get_system_prompt
GetSystemPrompt ==
    /\ CanLock(promptLock) /\ "system_prompt" \notin poisoned
    /\ got' = TemplateAnswer(system_prompt)
    /\ lastCmd' = "get_system_prompt"
    /\ UNCHANGED <<override, served, pending, cfgVars, pipeVars, autoVars>>

\* reset_system_prompt
ResetSystemPrompt ==
    /\ CanLock(promptLock) /\ "system_prompt" \notin poisoned
    /\ system_prompt' = ResetValue
    /\ override' = NoOverride
    /\ lastCmd' = "reset_system_prompt"
    /\ UNCHANGED <<got, served, pending, model_name, modelLock, modelDone,
                   promptLock, poisoned, pipeVars, autoVars>>

\* No command has asked the server anything.
NoServed == [request |-> NoRequest, reply |-> [sent |-> FALSE]]

TplInit ==
    /\ lastCmd = "none"
    /\ got = Ok(NoText)
    /\ override = NoOverride
    /\ served = NoServed
    /\ pending = {}

\* ------------------------------------------------- the inference client
\* The text of a reply body of /api/generate, as the server sent it.
RawBody(body) ==
    IF ~body.json THEN "<html>"
    ELSE IF RequiredFields \subseteq body.fields THEN "{model,created_at,response,done}"
    ELSE "{response,done}"

\* A reply body of /api/tags: its text, whether it is JSON, whether it holds
\* the models array ModelsResponse needs, and the names in it.
TagBodies ==
    {[raw |-> "<html>", json |-> FALSE, schema |-> FALSE, names |-> <<>>],
     [raw |-> "{error}", json |-> TRUE, schema |-> FALSE, names |-> <<>>],
     [raw |-> "{models:[]}", json |-> TRUE, schema |-> TRUE, names |-> <<>>],
     [raw |-> "{models:[llama3]}", json |-> TRUE, schema |-> TRUE,
      names |-> <<"llama3">>],
     [raw |-> "{models:[qwen,llama3]}", json |-> TRUE, schema |-> TRUE,
      names |-> <<"qwen", "llama3">>]}

\* What a GET of /api/tags can come back with.
TagReplies ==
    {[sent |-> FALSE, status |-> 0, readable |-> FALSE,
      body |-> CHOOSE b \in TagBodies : ~b.json]}
    \cup [sent : {TRUE}, status : {200, 404}, readable : BOOLEAN, body : TagBodies]

\* test_ollama_connection, its Result for the answer of send()
TestResult(rep) ==
    IF rep.sent THEN Ok(TRUE) ELSE Err(Fmt("Connection failed: ", <<SendError>>))

\* get_available_models, its Result for the answer of send()
ModelsResult(rep) ==
    IF ~rep.sent THEN Err(Fmt("Failed to get models: ", <<SendError>>))
    ELSE IF ~rep.readable
    THEN Err(Fmt("Failed to get models response text: ", <<BodyError>>))
    ELSE IF ~(rep.body.json /\ rep.body.schema)
    THEN Err(<<"Failed to parse models: ", ParseError,
               " (response: ", rep.body.raw, ")">>)
    ELSE Ok(rep.body.names)

ClientFrame == UNCHANGED <<override, cfgVars, pipeVars, autoVars>>

\* The commands that GET /api/tags; run's startup task is one more caller of
\* test_ollama_connection.
TagCommands == {"test_ollama_connection", "get_available_models", "set_initial_model"}

\* client.get(".../api/tags").send(): the request of cmd is in flight
SendTags(cmd) ==
    /\ cmd \in TagCommands \ pending
    /\ pending' = pending \cup {cmd}
    /\ UNCHANGED <<lastCmd, got, override, served, cfgVars, pipeVars, autoVars>>

\* enhance_prompt called as a command, from its call to its Result
EnhancePromptCommand(prompt, model) ==
    /\ CanLock(promptLock) /\ "system_prompt" \notin poisoned
    /\ model.some \/ (CanLock(modelLock) /\ "model_name" \notin poisoned)
    /\ \E rep \in Replies :
        /\ served' = [request |-> BuildRequest(prompt, model, system_prompt, model_name),
                      reply |-> rep]
        /\ got' = EnhanceResult(rep)
    /\ lastCmd' = "enhance_prompt"
    /\ UNCHANGED pending
    /\ ClientFrame

\* test_ollama_connection, from the answer of send() on
TestOllamaConnection(rep) ==
    /\ "test_ollama_connection" \in pending
    /\ pending' = pending \ {"test_ollama_connection"}
    /\ served' = [request |-> NoRequest, reply |-> rep]
    /\ got' = TestResult(rep)
    /\ lastCmd' = "test_ollama_connection"
    /\ ClientFrame

\* get_available_models, from the answer of send() on
GetAvailableModels(rep) ==
    /\ "get_available_models" \in pending
    /\ pending' = pending \ {"get_available_models"}
    /\ served' = [request |-> NoRequest, reply |-> rep]
    /\ got' = ModelsResult(rep)
    /\ lastCmd' = "get_available_models"
    /\ ClientFrame

\* A choice of the default that takes the last name of the list.
InitialModelLast(models) ==
    IF ~models.ok THEN Err(<<"Failed to get available models">>)
    ELSE IF models.val = <<>> THEN Err(<<"No models available">>)
    ELSE Ok(models.val[Len(models.val)])
\* set_initial_model, the model it chooses from what get_available_models
\* answered: models[0], or its Err
InitialModelResult(models) ==
    IF ~models.ok THEN Err(<<"Failed to get available models">>)
    ELSE IF models.val = <<>> THEN Err(<<"No models available">>)
    ELSE Ok(models.val[1])

\* set_initial_model, from the answer of send() on: the first model is stored
\* under the model_name mutex and returned; a poisoned mutex is an Err.
SetInitialModel(rep) ==
    /\ "set_initial_model" \in pending
    /\ pending' = pending \ {"set_initial_model"}
    /\ lastCmd' = "set_initial_model"
    /\ served' = [request |-> NoRequest, reply |-> rep]
    /\ LET first_model == InitialModelResult(ModelsResult(rep)) IN
       IF ~first_model.ok
       THEN /\ got' = first_model
            /\ UNCHANGED <<model_name, modelDone>>
       ELSE /\ CanLock(modelLock)
            /\ IF "model_name" \in poisoned
               THEN /\ got' = Err(<<"Failed to set initial model">>)
                    /\ UNCHANGED <<model_name, modelDone>>
               ELSE /\ model_name' = first_model.val
                    /\ modelDone' = first_model.val
                    /\ got' = first_model
    /\ UNCHANGED <<override, system_prompt, modelLock, promptLock, poisoned,
                   pipeVars, autoVars>>

\* ------------------------------------------------- poisoned mutexes
\* The mutexes of AppState.
Locks == {"model_name", "system_prompt"}

\* A command's Err arm: the command answers Err and nothing else changes.
Refused(cmd, msg) ==
    /\ lastCmd' = cmd
    /\ got' = Err(<<msg>>)
    /\ UNCHANGED <<override, served, pending, cfgVars, pipeVars, autoVars>>

\* update_model, state.model_name.lock() answers Err(PoisonError)
UpdateModelPoisoned(model) ==
    /\ CanLock(modelLock) /\ "model_name" \in poisoned
    /\ Refused("update_model", "Failed to update model")

\* update_system_prompt, state.system_prompt.lock() answers Err(PoisonError)
UpdateSystemPromptPoisoned(prompt) ==
    /\ CanLock(promptLock) /\ "system_prompt" \in poisoned
    /\ Refused("update_system_prompt", "Failed to update system prompt")

\* get_system_prompt, state.system_prompt.lock() answers Err(PoisonError)
GetSystemPromptPoisoned ==
    /\ CanLock(promptLock) /\ "system_prompt" \in poisoned
    /\ Refused("get_system_prompt", "Failed to get system prompt")

\* reset_system_prompt, state.system_prompt.lock() answers Err(PoisonError)
ResetSystemPromptPoisoned ==
    /\ CanLock(promptLock) /\ "system_prompt" \in poisoned
    /\ Refused("reset_system_prompt", "Failed to reset system prompt")

\* The spawned task of run r panics: it ends there, nothing is returned to
\* the "if let Err" around it and no notice is shown.
Panics(r) ==
    /\ pc' = [pc EXCEPT ![r] = "panicked"]
    /\ outcome' = [outcome EXCEPT ![r] = "panic"]
    /\ clipboard_text' = [clipboard_text EXCEPT ![r] = NoText]
    /\ current_model' = [current_model EXCEPT ![r] = NoModel]
    /\ UNCHANGED <<others, cbVars, cfgVars, request, enhanced_text, failure,
                   readBlank, sawNoModel, reply, notices, nreq, nwrite, writeOk>>

\* handle_global_hotkey: state.model_name.lock().unwrap() on a poisoned mutex
CheckModelPanics(r) ==
    /\ pc[r] = "model"
    /\ CanLock(modelLock) /\ "model_name" \in poisoned
    /\ Panics(r)

\* enhance_prompt: state.system_prompt.lock().unwrap() on a poisoned mutex
EnhanceSendPanics(r) ==
    /\ pc[r] = "enhance"
    /\ CanLock(promptLock) /\ "system_prompt" \in poisoned
    /\ Panics(r)

\* ------------------------------------------------------ the autostart driver
\* How many enable/disable calls can be in flight together.
MaxCalls == 2
Calls == 1..MaxCalls

\* std::env::consts::OS
Platforms == {"macos", "windows", "linux", "freebsd"}

\* package_info().name: set by the build's configuration, outside lib.rs
AppNames == {"clip-prompt", "Clip Prompt"}

\* std::env::current_exe() now, and the place an earlier install ran from
CurrentExe == "/opt/clip-prompt/clip-prompt"
ExePaths == {CurrentExe, "/old/clip-prompt"}

\* format!("com.{}.{}", app_name, app_name)
bundle_id(name) == <<"com", name, name>>

\* $HOME/Library/LaunchAgents/<bundle_id>.plist
PlistPath(id) == <<"Library/LaunchAgents">> \o id \o <<".plist">>

\* the plist path enable_autostart_macos writes
EnablePlistPath(name) == PlistPath(bundle_id(name))

\* the plist path disable_autostart_macos and is_autostart_enabled_macos use
HardcodedPlistPath == PlistPath(bundle_id("clip-prompt"))

\* HKCU:\Software\Microsoft\Windows\CurrentVersion\Run, value "ClipPrompt"
RegistryRun == <<"HKCU Run", "ClipPrompt">>

\* $HOME/.config/autostart/clip-prompt.desktop
DesktopFile == <<".config/autostart", "clip-prompt.desktop">>

Absent == [present |-> FALSE]
\* the LaunchAgent plist, the registry value, the desktop entry
PlistContent(id, exe) == [present |-> TRUE, label |-> id, exec |-> exe]
RegistryContent(exe) == [present |-> TRUE, label |-> <<"ClipPrompt">>, exec |-> exe]
DesktopContent(exe) == [present |-> TRUE, label |-> <<"Clip Prompt">>, exec |-> exe]

Exists(path) == fs[path].present

\* The places a host keeps its registration in.
PathsOf(os, name) ==
    CASE os = "macos" -> {EnablePlistPath(name), HardcodedPlistPath}
      [] os = "windows" -> {RegistryRun}
      [] os = "linux" -> {DesktopFile}
      [] OTHER -> {}
AllPaths == UNION {PathsOf(os, n) : os \in Platforms, n \in AppNames}

\* What an earlier run of the program can have left at a place.
LeftAt(path) ==
    {Absent} \cup
    {IF path = RegistryRun THEN RegistryContent(e)
     ELSE IF path = DesktopFile THEN DesktopContent(e)
     ELSE PlistContent(SubSeq(path, 2, 4), e) : e \in ExePaths}

\* No artifact is at any place the host keeps its registration in.
NothingRegistered == \A p \in PathsOf(platform, app_name) : ~Exists(p)

\* Nothing at any place.
NoFs == [p \in AllPaths |-> Absent]

\* No call, no query: nothing was looked at.
NoSnapshot == <<>>

Idle == [pc |-> "idle", alone |-> TRUE, had |-> FALSE, was |-> NoSnapshot]
Quiet(c) == \A d \in Calls \ {c} : call[d].pc = "idle"
NoOp == [op |-> "none", ok |-> FALSE, had |-> FALSE, was |-> NoSnapshot]

\* Call c takes its first step: it is alone when no other call is in flight,
\* the calls in flight are no longer alone, and it notes whether anything was
\* registered and what was at each place.
Begin(c, next) ==
    [d \in Calls |-> IF d = c THEN [pc |-> next, alone |-> Quiet(c),
                                     had |-> ~NothingRegistered, was |-> fs]
                     ELSE IF call[d].pc = "idle" THEN call[d]
                     ELSE [call[d] EXCEPT !.alone = FALSE]]

\* Call c returns ok (Ok(true)) or not (Err): lastOp names it when no other
\* call ran beside it.
Return(c, cs, op, ok) ==
    /\ call' = [cs EXCEPT ![c] = Idle]
    /\ res' = [res EXCEPT ![c] =
                [op |-> op, ok |-> ok, had |-> cs[c].had, was |-> cs[c].was]]
    /\ lastOp' = IF cs[c].alone
                 THEN [op |-> op, ok |-> ok, had |-> cs[c].had, was |-> cs[c].was]
                 ELSE NoOp

AutoFrame == UNCHANGED <<platform, app_name, answer, cfgVars, pipeVars, tplVars>>

\* enable_autostart_macos: the plist is written (lines 398-440)
EnableMacosWrite(c) ==
    /\ platform = "macos" /\ call[c].pc = "idle"
    /\ fs' = [fs EXCEPT ![EnablePlistPath(app_name)] =
                PlistContent(bundle_id(app_name), CurrentExe)]
    /\ call' = Begin(c, "load")
    /\ res' = [res EXCEPT ![c] = NoOp]
    /\ lastOp' = NoOp
    /\ UNCHANGED loaded
    /\ AutoFrame

\* enable_autostart_macos: launchctl load, and its exit status (lines 442-455)
EnableMacosLoad(c) ==
    /\ platform = "macos" /\ call[c].pc = "load"
    /\ \E success \in BOOLEAN :
        /\ loaded' = IF success THEN loaded \cup {EnablePlistPath(app_name)} ELSE loaded
        /\ Return(c, call, "enable", success)
    /\ UNCHANGED fs
    /\ AutoFrame

\* disable_autostart_macos: plist_path.exists() (lines 457-468, 481)
DisableMacosCheck(c) ==
    /\ platform = "macos" /\ call[c].pc = "idle"
    /\ IF Exists(HardcodedPlistPath)
       THEN /\ call' = Begin(c, "unload")
            /\ res' = [res EXCEPT ![c] = NoOp]
            /\ lastOp' = NoOp
       ELSE Return(c, Begin(c, "idle"), "disable", TRUE)
    /\ UNCHANGED <<fs, loaded>>
    /\ AutoFrame

\* disable_autostart_macos: launchctl unload, its output dropped (469-472)
DisableMacosUnload(c) ==
    /\ platform = "macos" /\ call[c].pc = "unload"
    /\ loaded' = loaded \ {HardcodedPlistPath}
    /\ call' = [call EXCEPT ![c].pc = "remove"]
    /\ UNCHANGED <<fs, res, lastOp>>
    /\ AutoFrame

\* disable_autostart_macos: fs::remove_file (lines 474-481)
DisableMacosRemove(c) ==
    /\ platform = "macos" /\ call[c].pc = "remove"
    /\ IF Exists(HardcodedPlistPath)
       THEN /\ fs' = [fs EXCEPT ![HardcodedPlistPath] = Absent]
            /\ Return(c, call, "disable", TRUE)
       ELSE /\ UNCHANGED fs
            /\ Return(c, call, "disable", FALSE)
    /\ UNCHANGED loaded
    /\ AutoFrame

\* enable_autostart_windows: New-ItemProperty ... -Force
EnableWindows(c) ==
    /\ platform = "windows" /\ call[c].pc = "idle"
    /\ fs' = [fs EXCEPT ![RegistryRun] = RegistryContent(CurrentExe)]
    /\ Return(c, Begin(c, "idle"), "enable", TRUE)
    /\ UNCHANGED loaded
    /\ AutoFrame

\* disable_autostart_windows: Remove-ItemProperty, its output dropped
DisableWindows(c) ==
    /\ platform = "windows" /\ call[c].pc = "idle"
    /\ fs' = [fs EXCEPT ![RegistryRun] = Absent]
    /\ Return(c, Begin(c, "idle"), "disable", TRUE)
    /\ UNCHANGED loaded
    /\ AutoFrame

\* An enable that leaves an entry it finds as it is.
EnableLinuxKeeps(c) ==
    /\ platform = "linux" /\ call[c].pc = "idle"
    /\ fs' = IF Exists(DesktopFile) THEN fs
             ELSE [fs EXCEPT ![DesktopFile] = DesktopContent(CurrentExe)]
    /\ Return(c, Begin(c, "idle"), "enable", TRUE)
    /\ UNCHANGED loaded
    /\ AutoFrame

\* enable_autostart_linux: the desktop entry is written
EnableLinux(c) ==
    /\ platform = "linux" /\ call[c].pc = "idle"
    /\ fs' = [fs EXCEPT ![DesktopFile] = DesktopContent(CurrentExe)]
    /\ Return(c, Begin(c, "idle"), "enable", TRUE)
    /\ UNCHANGED loaded
    /\ AutoFrame

\* A disable that goes on to remove the entry without looking for it.
DisableLinuxNoCheck(c) ==
    /\ platform = "linux" /\ call[c].pc = "idle"
    /\ call' = Begin(c, "remove")
    /\ res' = [res EXCEPT ![c] = NoOp]
    /\ lastOp' = NoOp
    /\ UNCHANGED <<fs, loaded>>
    /\ AutoFrame

\* disable_autostart_linux: desktop_file.exists() (lines 586-594, 599-600)
DisableLinuxCheck(c) ==
    /\ platform = "linux" /\ call[c].pc = "idle"
    /\ IF Exists(DesktopFile)
       THEN /\ call' = Begin(c, "remove")
            /\ res' = [res EXCEPT ![c] = NoOp]
            /\ lastOp' = NoOp
       ELSE Return(c, Begin(c, "idle"), "disable", TRUE)
    /\ UNCHANGED <<fs, loaded>>
    /\ AutoFrame

\* disable_autostart_linux: fs::remove_file (lines 595-600)
DisableLinuxRemove(c) ==
    /\ platform = "linux" /\ call[c].pc = "remove"
    /\ IF Exists(DesktopFile)
       THEN /\ fs' = [fs EXCEPT ![DesktopFile] = Absent]
            /\ Return(c, call, "disable", TRUE)
       ELSE /\ UNCHANGED fs
            /\ Return(c, call, "disable", FALSE)
    /\ UNCHANGED loaded
    /\ AutoFrame

\* enable_autostart / disable_autostart on any other host
Unsupported(c, op) ==
    /\ platform \notin {"macos", "windows", "linux"} /\ call[c].pc = "idle"
    /\ Return(c, Begin(c, "idle"), op, FALSE)
    /\ UNCHANGED <<fs, loaded>>
    /\ AutoFrame

\* The place enable_autostart registers in on this host.
EnablePath ==
    CASE platform = "macos" -> EnablePlistPath(app_name)
      [] platform = "windows" -> RegistryRun
      [] OTHER -> DesktopFile

\* What one enable_autostart on this host registers there.
Registration ==
    CASE platform = "macos" -> PlistContent(bundle_id(app_name), CurrentExe)
      [] platform = "windows" -> RegistryContent(CurrentExe)
      [] OTHER -> DesktopContent(CurrentExe)

\* is_autostart_enabled and its three variants
IsEnabledResult ==
    CASE platform = "macos" -> Ok(Exists(HardcodedPlistPath))
      [] platform = "windows" -> Ok(Exists(RegistryRun))
      [] platform = "linux" -> Ok(Exists(DesktopFile))
      [] OTHER -> Err(<<"Unsupported operating system">>)

\* is_autostart_enabled: the answer, the call it came right after, and what
\* was at each place before the query and after it
IsAutostartEnabled ==
    /\ UNCHANGED <<platform, app_name, fs, loaded, call, res, lastOp>>
    /\ answer' = [result |-> IsEnabledResult, after |-> lastOp,
                  saw |-> fs, left |-> fs']
    /\ UNCHANGED <<cfgVars, pipeVars, tplVars>>

NoAnswer ==
    [result |-> Err(<<"none">>), after |-> NoOp, saw |-> NoSnapshot,
     left |-> NoSnapshot]

\* No autostart call was made.
AutoIdle ==
    /\ platform = "linux"
    /\ app_name = "clip-prompt"
    /\ fs = NoFs
    /\ loaded = {}
    /\ call = [c \in Calls |-> Idle]
    /\ res = [c \in Calls |-> NoOp]
    /\ lastOp = NoOp
    /\ answer = NoAnswer

\* Any host, any package name, and whatever earlier runs left behind.
AutoInit ==
    /\ platform \in Platforms
    /\ app_name \in AppNames
    /\ fs \in {f \in [AllPaths -> UNION {LeftAt(p) : p \in AllPaths}] :
                \A p \in AllPaths :
                    /\ f[p] \in LeftAt(p)
                    /\ p \notin PathsOf(platform, app_name) => f[p] = Absent}
    /\ loaded \in SUBSET {p \in PathsOf(platform, app_name) : platform = "macos"}
    /\ call = [c \in Calls |-> Idle]
    /\ res = [c \in Calls |-> NoOp]
    /\ lastOp = NoOp
    /\ answer = NoAnswer

\* ------------------------------------------------------- the specifications
\* The clipboard as the user left it, no command of the control surface yet.
Init ==
    /\ clipboard \in Texts
    /\ cbWriter = 0
    /\ cbText = NoText
    /\ cbReply = NoText
    /\ StateInit
    /\ TaskInit
    /\ TplInit
    /\ AutoIdle

Next ==
    \/ \E s \in Shortcuts, st \in ShortcutStates : HotkeyEvent(s, st)
    \/ \E r \in Runs : RunStep(r)
    \/ \E t \in Texts : UserCopy(t)
    \/ \E m \in ModelArgs : UpdateModelLock(m)
    \/ UpdateModelUnlock

\* The hotkey pipeline beside update_model and the user's copies.
Spec == Init /\ [][Next]_vars

\* The spawned tasks under a fair scheduler: a task that can take its next
\* step takes it, the inference call comes back, a task waiting for the
\* model_name mutex gets it when it is free again and again, and update_model
\* drops its guard.
Fairness ==
    /\ \A r \in Runs :
        /\ WF_vars(ReadClipboardOk(r) \/ ReadClipboardErr(r))
        /\ SF_vars(CheckModel(r))
        /\ WF_vars(EnhanceSend(r))
        /\ WF_vars(Receive(r))
        /\ WF_vars(WriteClipboardOk(r) \/ WriteClipboardErr(r))
        /\ WF_vars(ReportFailure(r))
    /\ WF_vars(UpdateModelUnlock)

FairSpec == Spec /\ Fairness

\* The pipeline and the commands when a panic has poisoned mutexes of AppState.
PoisonInit ==
    /\ clipboard \in Texts
    /\ cbWriter = 0
    /\ cbText = NoText
    /\ cbReply = NoText
    /\ model_name \in ModelArgs
    /\ modelDone = model_name
    /\ system_prompt = <<>>
    /\ modelLock = "free"
    /\ promptLock = "free"
    /\ poisoned \in SUBSET Locks
    /\ TaskInit
    /\ TplInit
    /\ AutoIdle

PoisonNext ==
    \/ Next
    \/ \E m \in ModelArgs : UpdateModelPoisoned(m)
    \/ \E p \in Texts : UpdateSystemPromptPoisoned(p)
    \/ GetSystemPromptPoisoned
    \/ ResetSystemPromptPoisoned
    \/ \E r \in Runs : CheckModelPanics(r) \/ EnhanceSendPanics(r)

PoisonSpec == PoisonInit /\ [][PoisonNext]_vars

\* The commands of the inference client beside update_model.
ClientInit ==
    /\ clipboard = <<>>
    /\ cbWriter = 0
    /\ cbText = NoText
    /\ cbReply = NoText
    /\ StateInit
    /\ TaskInit
    /\ TplInit
    /\ AutoIdle

ClientNext ==
    \/ \E p \in Texts, m \in {None} \cup {Some(n) : n \in ModelNames} :
            EnhancePromptCommand(p, m)
    \/ \E cmd \in TagCommands : SendTags(cmd)
    \/ \E rep \in TagReplies :
        \/ TestOllamaConnection(rep)
        \/ GetAvailableModels(rep)
        \/ SetInitialModel(rep)
    \/ \E m \in ModelArgs : UpdateModelLock(m)
    \/ UpdateModelUnlock

ClientSpec == ClientInit /\ [][ClientNext]_vars

\* The server answers a GET of /api/tags with a list of two, or not at all.
ListReplies ==
    {rep \in TagReplies :
        ~rep.sent \/ (rep.status = 200 /\ rep.readable /\ Len(rep.body.names) = 2)}

\* The pipeline beside the accessors of the Configuration Store and the
\* commands that GET /api/tags, which the server answers with a list.  The
\* task of the first trigger is followed to its end; the triggers after it
\* are accepted and their tasks are left where they start.
StoreInit ==
    /\ clipboard = <<"a">>
    /\ cbWriter = 0
    /\ cbText = NoText
    /\ cbReply = NoText
    /\ StateInit
    /\ TaskInit
    /\ TplInit
    /\ AutoIdle

StoreNext ==
    \/ \E s \in Shortcuts, st \in ShortcutStates : HotkeyEvent(s, st)
    \/ RunStep(1)
    \/ \E m \in ModelArgs : UpdateModelLock(m)
    \/ UpdateModelUnlock
    \/ \E p \in {<<"a">>} : UpdateSystemPrompt(p)
    \/ GetSystemPrompt
    \/ ResetSystemPrompt
    \/ \E cmd \in TagCommands : SendTags(cmd)
    \/ \E rep \in {l \in ListReplies : l.sent} :
        \/ TestOllamaConnection(rep)
        \/ GetAvailableModels(rep)
        \/ SetInitialModel(rep)

StoreSpec == StoreInit /\ [][StoreNext]_vars

\* The pipeline beside the commands that store a model: update_model and
\* set_initial_model.
RaceInit ==
    /\ clipboard = <<"a">>
    /\ cbWriter = 0
    /\ cbText = NoText
    /\ cbReply = NoText
    /\ StateInit
    /\ TaskInit
    /\ TplInit
    /\ AutoIdle

RaceNext ==
    \/ \E s \in Shortcuts, st \in ShortcutStates : HotkeyEvent(s, st)
    \/ \E r \in Runs : RunStep(r)
    \/ \E m \in ModelArgs : UpdateModelLock(m)
    \/ UpdateModelUnlock
    \/ SendTags("set_initial_model")
    \/ \E rep \in ListReplies : SetInitialModel(rep)

RaceSpec == RaceInit /\ [][RaceNext]_vars

\* The control surface's commands on the Configuration Store.
CfgInit ==
    /\ clipboard = <<>>
    /\ cbWriter = 0
    /\ cbText = NoText
    /\ cbReply = NoText
    /\ StateInit
    /\ TaskInit
    /\ TplInit
    /\ AutoIdle

CfgNext ==
    \/ \E p \in Texts : UpdateSystemPrompt(p)
    \/ GetSystemPrompt
    \/ ResetSystemPrompt
    \/ \E m \in ModelArgs : UpdateModelLock(m)
    \/ UpdateModelUnlock

CfgSpec == CfgInit /\ [][CfgNext]_vars

\* The autostart driver on every host.
AutoStart ==
    /\ clipboard = <<>>
    /\ cbWriter = 0
    /\ cbText = NoText
    /\ cbReply = NoText
    /\ StateInit
    /\ TaskInit
    /\ TplInit
    /\ AutoInit

AutoNext ==
    \/ \E c \in Calls :
        \/ EnableMacosWrite(c)
        \/ EnableMacosLoad(c)
        \/ DisableMacosCheck(c)
        \/ DisableMacosUnload(c)
        \/ DisableMacosRemove(c)
        \/ EnableWindows(c)
        \/ DisableWindows(c)
        \/ EnableLinux(c)
        \/ DisableLinuxCheck(c)
        \/ DisableLinuxRemove(c)
        \/ \E op \in {"enable", "disable"} : Unsupported(c, op)
    \/ IsAutostartEnabled

AutoSpec == AutoStart /\ [][AutoNext]_vars

\* ------------------------------------------------------------ properties
Supported == platform \in {"macos", "windows", "linux"}
LastNotice(r) == notices[r][Len(notices[r])]
Carries(msg, e) == \E i \in DOMAIN msg : msg[i] = e

\* C1: a run whose clipboard read returned empty or whitespace-only text has
\* ended after the "copy first" notice, sent no request to the server and made
\* no clipboard write, so nothing in the clipboard is its doing.
BlankIsNoOp ==
    \A r \in Runs :
        readBlank[r] =>
            /\ pc[r] = "done" /\ outcome[r] = "blank"
            /\ nreq[r] = 0 /\ request[r] = NoRequest
            /\ nwrite[r] = 0 /\ cbWriter # r
            /\ LastNotice(r) = NoticeCopyFirst

\* A run that read a whitespace-only clipboard has ended and the clipboard
\* still holds what the user copied.
BlankIsNoOpSeen ==
    \E r \in Runs :
        /\ readBlank[r] /\ pc[r] = "done"
        /\ clipboard = <<" ">> /\ cbWriter = 0

\* C2 as stated: a run that got a well-formed 2xx reply ends with the success
\* notice, and the clipboard holds the reply's response as long as nobody
\* wrote it since.
WellFormedReplyIsWritten ==
    \A r \in Runs :
        /\ pc[r] = "write" => reply[r].wf /\ enhanced_text[r] = reply[r].response
        /\ reply[r].wf => outcome[r] # "enhance_error"
        /\ reply[r].wf /\ pc[r] = "done" =>
            /\ LastNotice(r) = NoticeSuccess
            /\ cbWriter = r => clipboard = cbReply

\* C2: for a run that got a well-formed 2xx reply, enhance_prompt returns
\* exactly the reply's response field; when the clipboard write then succeeds
\* the run ends with the success notice and the clipboard holds exactly that
\* text as long as nobody wrote it since.
WellFormedReplyIsWrittenIfWriteSucceeds ==
    \A r \in Runs :
        /\ pc[r] = "write" => reply[r].wf /\ enhanced_text[r] = reply[r].response
        /\ reply[r].wf => outcome[r] # "enhance_error"
        /\ reply[r].wf /\ pc[r] = "done" /\ writeOk[r] =>
            /\ LastNotice(r) = NoticeSuccess
            /\ cbWriter = r => clipboard = cbReply

\* A run has written a reply that starts with whitespace, untrimmed.
UntrimmedReplyWritten ==
    \E r \in Runs :
        /\ reply[r].wf /\ pc[r] = "done" /\ writeOk[r]
        /\ cbWriter = r /\ cbReply = <<" ", "a">> /\ clipboard = <<" ", "a">>
        /\ LastNotice(r) = NoticeSuccess

\* C3: a run whose enhance call failed (no connection, a status other than
\* 2xx, an unreadable or undecodable body) makes no clipboard write; its error
\* is on its way to the failure notice, or the run has ended and its last
\* notice is the failure notice carrying that error.
EnhanceFailureIsReported ==
    \A r \in Runs :
        reply[r].error # "" =>
            /\ outcome[r] = "enhance_error"
            /\ nwrite[r] = 0 /\ cbWriter # r /\ ~writeOk[r]
            /\ \/ pc[r] = "failed" /\ Carries(failure[r], reply[r].error)
               \/ /\ pc[r] = "done"
                  /\ LastNotice(r)[1] = "Enhancement failed: "
                  /\ Carries(LastNotice(r), reply[r].error)

\* A run has ended after a 404 from the server, the status in its notice.
EnhanceFailureSeen ==
    \E r \in Runs :
        /\ pc[r] = "done" /\ reply[r].error = "404"
        /\ Carries(LastNotice(r), "404")

\* C4: a run that found the model empty ends at once with the "no model"
\* notice, has sent no request and made no clipboard write; and the step that
\* found the model empty leaves model_name empty.
NoModelEndsRun ==
    /\ [](\A r \in Runs :
            sawNoModel[r] =>
                /\ pc[r] = "done" /\ outcome[r] = "no_model"
                /\ LastNotice(r) = NoticeNoModel
                /\ nreq[r] = 0 /\ request[r] = NoRequest
                /\ nwrite[r] = 0 /\ cbWriter # r)
    /\ [][\A r \in Runs :
            ~sawNoModel[r] /\ sawNoModel'[r] =>
                model_name = NoModel /\ model_name' = NoModel]_vars

\* A run with a non-blank text has ended for lack of a model.
NoModelSeen ==
    \E r \in Runs :
        /\ sawNoModel[r] /\ ~readBlank[r] /\ pc[r] = "done"
        /\ model_name = NoModel

\* C5: a run that is to read the clipboard can read it and a run that is to
\* write it can write it, whatever the other runs are doing; and a clipboard
\* last written by a run holds the text of that write.
LastWriterWins ==
    /\ \A r \in Runs :
        /\ pc[r] = "read" => ENABLED ReadClipboardOk(r)
        /\ pc[r] = "write" => ENABLED WriteClipboardOk(r)
    /\ cbWriter \in Runs => clipboard = cbText

\* Both runs have written the clipboard, the run that started first last.
OvertakenWriteSeen ==
    /\ pc[1] = "done" /\ writeOk[1]
    /\ pc[2] = "done" /\ writeOk[2]
    /\ cbWriter = 1 /\ clipboard = <<"a">>

\* C6: under fair scheduling and an inference call that comes back, every run
\* that was started ends; a failed run in particular.
EveryRunEnds ==
    \A r \in Runs : (pc[r] # "idle") ~> (pc[r] = "done")

\* A run has ended after a write to the clipboard failed.
FailedRunEnded ==
    \E r \in Runs : pc[r] = "done" /\ outcome[r] = "write_error"

\* C7: while no update_model holds the mutex, model_name is the value of the
\* last update_model that completed; and the model a run reads is that value.
ReadsSeeLastCompletedWrite ==
    /\ [](CanLock(modelLock) => model_name = modelDone)
    /\ [][\A r \in Runs :
            pc[r] = "model" /\ pc'[r] # "model" =>
                /\ sawNoModel'[r] <=> modelDone = NoModel
                /\ ~sawNoModel'[r] => current_model'[r] = modelDone]_vars

\* A run holds the model an update_model wrote, and another update_model has
\* begun since.
ModelReadSeen ==
    \E r \in Runs :
        /\ pc[r] = "enhance" /\ current_model[r] = "llama3"
        /\ modelDone = "llama3" /\ modelLock = "update_model"

\* C8 as stated: get_system_prompt answers the default when no override is
\* set, and the last override set otherwise.
GetAnswersOverride ==
    lastCmd = "get_system_prompt" =>
        got = Ok(IF override.set THEN override.val ELSE DEFAULT_SYSTEM_PROMPT)

\* C8: get_system_prompt answers the default when no override is set or the
\* last override set is the empty text, and the last override set otherwise.
GetAnswersNonEmptyOverride ==
    lastCmd = "get_system_prompt" =>
        got = Ok(IF override.set /\ override.val # <<>>
                 THEN override.val ELSE DEFAULT_SYSTEM_PROMPT)

\* get_system_prompt has answered the default for an empty override.
EmptyOverrideSeen ==
    /\ lastCmd = "get_system_prompt"
    /\ override = [set |-> TRUE, val |-> <<>>]
    /\ got = Ok(DEFAULT_SYSTEM_PROMPT)

\* C9 as stated: on each of the three hosts, is_autostart_enabled right after
\* an enable answers true, and right after a disable answers false.
EnableThenEnabled ==
    Supported =>
        /\ answer.after.op = "enable" /\ answer.after.ok => answer.result = Ok(TRUE)
        /\ answer.after.op = "disable" /\ answer.after.ok => answer.result = Ok(FALSE)

QueryTellsRegistration ==
    Supported /\ answer # NoAnswer =>
        /\ answer.left = answer.saw
        /\ answer.result = Ok(answer.saw[EnablePath].present)

\* C13: a run whose clipboard read failed has sent no request and written
\* nothing, has shown the "copy first" notice, and its error is on its way to
\* the failure notice or shown in it with the run ended; and while a trigger
\* slot is left the next pressed hotkey starts a run.
ReadFailureIsReported ==
    \A r \in Runs :
        outcome[r] = "read_error" =>
            /\ nreq[r] = 0 /\ request[r] = NoRequest
            /\ nwrite[r] = 0 /\ cbWriter # r
            /\ Len(notices[r]) >= 2 /\ notices[r][2] = NoticeCopyFirst
            /\ \/ pc[r] = "failed" /\ failure[r][1] = "Failed to read clipboard: "
               \/ /\ pc[r] = "done"
                  /\ LastNotice(r)[1] = "Enhancement failed: "
                  /\ Carries(LastNotice(r), "Failed to read clipboard: ")
            /\ (\E q \in Runs : pc[q] = "idle") =>
                    ENABLED HotkeyEvent("ctrl+shift+KeyE", "Pressed")

\* A run has ended on a failed read, and the next trigger's run has started.
ReadFailureSeen ==
    /\ pc[1] = "done" /\ outcome[1] = "read_error"
    /\ pc[2] # "idle" /\ Len(notices[1]) = 3

\* C14: a run whose clipboard write failed made that one write attempt and no
\* other, shows no success notice, and its error is on its way to the failure
\* notice or shown in it with the run ended.
WriteFailureIsReported ==
    \A r \in Runs :
        outcome[r] = "write_error" =>
            /\ nwrite[r] = 1 /\ ~writeOk[r] /\ cbWriter # r
            /\ nreq[r] = 1 /\ reply[r].wf
            /\ \A i \in DOMAIN notices[r] : notices[r][i] # NoticeSuccess
            /\ \/ pc[r] = "failed" /\ Carries(failure[r], "denied")
               \/ /\ pc[r] = "done"
                  /\ LastNotice(r)[1] = "Enhancement failed: "
                  /\ Carries(LastNotice(r), "Failed to write to clipboard: ")
                  /\ Carries(LastNotice(r), "denied")

\* A run has ended on a failed write with the error in its last notice, the
\* clipboard still the user's.
WriteFailureSeen ==
    \E r \in Runs :
        /\ pc[r] = "done" /\ outcome[r] = "write_error"
        /\ Carries(LastNotice(r), "denied") /\ cbWriter = 0

\* C15: a run that read an empty or whitespace-only clipboard returns Ok: it
\* never waits to report a failure, and the notices of its trigger are the
\* processing notice and the "copy first" notice, no failure notice among them.
BlankIsNotAFailure ==
    \A r \in Runs :
        readBlank[r] =>
            /\ pc[r] = "done" /\ failure[r] = NoFailure
            /\ notices[r] = <<NoticeProcessing, NoticeCopyFirst>>
            /\ \A i \in DOMAIN notices[r] : notices[r][i][1] # "Enhancement failed: "

\* A run that read an empty clipboard has ended with its two notices.
BlankNoticeSeen ==
    \E r \in Runs :
        /\ readBlank[r] /\ pc[r] = "done" /\ clipboard = <<>>
        /\ LastNotice(r) = NoticeCopyFirst /\ Len(notices[r]) = 2

\* The events the claims call qualifying: the registered combination, in any
\* of the forms the plugin prints it in, pressed.
Registered ==
    {"CommandOrControl+Shift+E", "shift+super+KeyE", "ctrl+shift+KeyE",
     "super+shift+KeyE"}

\* C16: a step that handles an event for another combination or a released
\* event changes nothing; and a step that starts a run is the handling of a
\* pressed event for the registered combination, and starts one run.
OnlyPressedTargetStartsRun ==
    [][/\ \A s \in Shortcuts, st \in ShortcutStates :
            HotkeyEvent(s, st) /\ ~(s \in Registered /\ st = "Pressed") =>
                UNCHANGED vars
       /\ (\E r \in Runs : pc[r] = "idle" /\ pc'[r] # "idle") =>
            /\ \E s \in Registered : HotkeyEvent(s, "Pressed")
            /\ Cardinality({r \in Runs : pc[r] = "idle" /\ pc'[r] # "idle"}) = 1
            /\ UNCHANGED <<cbVars, cfgVars, request, nreq, nwrite>>]_vars

\* A run is in flight, and an event for another combination and a released
\* event can arrive.
OtherEventSeen ==
    /\ pc[1] = "await" /\ pc[2] = "idle"
    /\ ENABLED HotkeyEvent("ctrl+shift+KeyX", "Pressed")
    /\ ENABLED HotkeyEvent("ctrl+shift+KeyE", "Released")

\* C17: a run posts at most one request and makes at most one clipboard
\* write attempt, and none at all once it has failed or ended.
NoRetry ==
    \A r \in Runs :
        /\ nreq[r] <= 1 /\ nwrite[r] <= 1
        /\ nreq[r] = 1 => pc[r] \in {"await", "write", "failed", "done"}
        /\ nwrite[r] = 1 => pc[r] \in {"failed", "done"}
        /\ pc[r] \in {"failed", "done"} => request[r] = NoRequest

\* A run has ended after a failed request, having posted it once and written
\* nothing.
SingleAttemptSeen ==
    \E r \in Runs :
        /\ pc[r] = "done" /\ outcome[r] = "enhance_error"
        /\ nreq[r] = 1 /\ nwrite[r] = 0

ClientCommands == {"enhance_prompt", "get_available_models", "test_ollama_connection"}

\* C19 as stated: a command of the inference client that got a reply with a
\* status other than 2xx answers Err, and the error carries the status code.
StatusIsSurfaced ==
    lastCmd \in ClientCommands /\ served.reply.sent
        /\ served.reply.status \notin 200..299 =>
            ~got.ok /\ Carries(got.err, ToString(served.reply.status))

\* C20 as stated: enhance_prompt and get_available_models, given a 2xx reply
\* whose body cannot be decoded, answer Err with the parse error and the text
\* of the body in it.
DecodeErrorCarriesBody ==
    /\ lastCmd = "enhance_prompt" /\ served.reply.sent
            /\ served.reply.status \in 200..299 /\ served.reply.readable
            /\ ~(served.reply.body.json
                    /\ RequiredFields \subseteq served.reply.body.fields) =>
        /\ ~got.ok /\ Carries(got.err, ParseError)
        /\ Carries(got.err, RawBody(served.reply.body))
    /\ lastCmd = "get_available_models" /\ served.reply.sent
            /\ served.reply.status \in 200..299 /\ served.reply.readable
            /\ ~(served.reply.body.json /\ served.reply.body.schema) =>
        /\ ~got.ok /\ Carries(got.err, ParseError)
        /\ Carries(got.err, served.reply.body.raw)

\* A request of the pipeline's enhance, of list_models (on its own or inside
\* set_initial_model) or of check_reachable is in flight.
InFlight ==
    \/ \E r \in Runs : pc[r] = "await"
    \/ pending # {}

\* C21: while a request of enhance, list_models or check_reachable is in
\* flight no unit that waits for the server holds a lock of the Configuration
\* Store: update_system_prompt, get_system_prompt and reset_system_prompt can
\* run, update_model can take the model_name lock or, when an update_model
\* holds it, that update_model can finish, and a pressed target hotkey is
\* accepted as long as a task slot is left.
NoLockAcrossNetworkCall ==
    InFlight =>
        /\ \A p \in Texts : ENABLED UpdateSystemPrompt(p)
        /\ ENABLED GetSystemPrompt
        /\ ENABLED ResetSystemPrompt
        /\ IF modelLock = "update_model"
           THEN ENABLED UpdateModelUnlock
           ELSE \A m \in ModelArgs : ENABLED UpdateModelLock(m)
        /\ (\E r \in Runs : pc[r] = "idle") =>
                ENABLED <<HotkeyEvent("CommandOrControl+Shift+E", "Pressed")>>_vars

\* C21 witness: the request of run r was built from the default template and
\* is still in flight, and the store holds an override by now: an
\* update_system_prompt ran to its end while the request was in flight; a
\* second trigger was accepted and a list_models request is in flight too.
AccessorRanInFlight ==
    \E r \in Runs :
        /\ pc[r] = "await"
        /\ request[r].prompt = FullPrompt(DEFAULT_SYSTEM_PROMPT, <<"a">>)
        /\ system_prompt = <<"a">>
        /\ lastCmd = "update_system_prompt"
        /\ "get_available_models" \in pending
        /\ \E q \in Runs \ {r} : pc[q] = "read"

\* The models a caller of enhance_prompt can pass, and the ones the
\* Configuration Store can hold: update_model's and set_initial_model's.
Passable == ModelNames
Storable ==
    ModelNames \cup {b.names[i] : <<b, i>> \in
                        {<<b, i>> \in TagBodies \X (1..2) : i <= Len(b.names)}}

\* C22: a request sent by the enhance operation carries the model the caller
\* passed or a model of the Configuration Store, never one of its own (with no
\* model passed and none configured nothing is sent).
EnhanceUsesGivenModel ==
    lastCmd = "enhance_prompt" /\ served.request.sent =>
        served.request.model \in Passable \cup Storable

\* C23: on macOS the descriptor path an enable has written, built from the
\* package name, is the path disable deletes and is_enabled probes, whatever
\* the package name.
SameDescriptorPath ==
    platform = "macos" =>
        \A c \in Calls :
            call[c].pc = "load" \/ res[c].op = "enable" =>
                EnablePlistPath(app_name) = HardcodedPlistPath

\* C24: a set_initial_model that has its answer from the server stores the
\* first name of the list list_models returns for that answer and returns
\* it; when list_models fails or the list is empty it returns an error and
\* the active model stays as it was.
SetsFirstListedModel ==
    [][("set_initial_model" \in pending /\ "set_initial_model" \notin pending') =>
            LET models == ModelsResult(served'.reply) IN
            IF models.ok /\ Len(models.val) > 0
            THEN got' = Ok(Head(models.val)) /\ model_name' = Head(models.val)
            ELSE ~got'.ok /\ model_name' = model_name]_vars

\* C24 witness: the server listed two models and set_initial_model stored and
\* returned the first of them.
FirstOfTwoStored ==
    /\ lastCmd = "set_initial_model"
    /\ served.reply.sent /\ served.reply.body.names = <<"qwen", "llama3">>
    /\ got = Ok("qwen")
    /\ model_name = "qwen"

\* C25: on Linux, where the registration is a file, once the calls that ran
\* have all finished each of them has returned success, and the entry is
\* there when they all were enables and gone when they all were disables,
\* however their steps interleaved.
ConcurrentCallsSucceed ==
    platform = "linux" /\ (\A c \in Calls : call[c].pc = "idle" /\ res[c].op # "none") =>
        /\ \A c \in Calls : res[c].ok
        /\ (\A c \in Calls : res[c].op = "enable") => Exists(DesktopFile)
        /\ (\A c \in Calls : res[c].op = "disable") => ~Exists(DesktopFile)

\* C26: the model a run reads at its check is the store's model of that
\* moment and is not empty, no step of anybody else changes it while the run
\* has not sent, and the request the run sends carries it; update_model (with
\* any name, the empty one too) and set_initial_model run in between.
RequestCarriesCheckedModel ==
    [][\A r \in Runs :
        /\ pc[r] = "model" /\ pc'[r] = "enhance" =>
                current_model'[r] = model_name /\ current_model'[r] # NoModel
        /\ pc[r] = "enhance" /\ pc'[r] = "enhance" =>
                current_model'[r] = current_model[r]
        /\ request'[r] # request[r] /\ request'[r].sent =>
                /\ pc[r] = "enhance"
                /\ request'[r].model = current_model[r]
                /\ request'[r].model # NoModel]_vars

\* C26 witness: run r has passed its check with "llama3" and has not sent yet,
\* and meanwhile set_initial_model has stored "qwen"; the next step of r is
\* the sending of its request.
StoreChangedAfterCheck ==
    \E r \in Runs :
        /\ pc[r] = "enhance" /\ current_model[r] = "llama3"
        /\ model_name = "qwen" /\ lastCmd = "set_initial_model" /\ got = Ok("qwen")

\* C27: on macOS the descriptor is on disk when an enable that runs alone
\* comes to launchctl load, and an is_enabled that follows an enable which
\* returned an error finds the descriptor still there and answers true.
FailedEnableLeavesDescriptor ==
    platform = "macos" =>
        /\ \A c \in Calls :
                call[c].pc = "load" /\ call[c].alone =>
                    fs[EnablePlistPath(app_name)] = Registration
        /\ answer.after.op = "enable" /\ ~answer.after.ok =>
                /\ answer.saw[EnablePlistPath(app_name)] = Registration
                /\ answer.result = Ok(TRUE)
====
